---- MODULE Spec2Model ----
(***************************************************************************)
(* Model of the budgeting core of simple-budget-pld (src/src/budget.py):   *)
(* BudgetPeriod, BudgetItem, BudgetPlan and Budget.                        *)
(* The last two sections model update_categories (user_modifications.py)   *)
(* and maybe_pull_latest_transactions (transactions/selection.py).         *)
(*                                                                         *)
(* Conventions                                                             *)
(*   - a Python str is a sequence of one-character strings, so that        *)
(*     slicing (period[2:], period[0]) and re.search are modelled by what  *)
(*     they do;                                                            *)
(*   - a datetime at midnight is an ordinal day number (day 0 is           *)
(*     Year0-01-01); an ISO date string "%Y-%m-%d" is the tuple            *)
(*     <<y, m, d>> of its zero-padded fields, compared lexicographically   *)
(*     as Python compares the strings;                                     *)
(*   - a float is an exact rational <<numerator, denominator>>;            *)
(*   - a raised exception is a record with ok = FALSE and the exception    *)
(*     class in err.                                                       *)
(***************************************************************************)
EXTENDS Integers, Sequences, FiniteSets, TLC

VARIABLES
    now,                \* the wall clock: ordinal of today's date
    debug,              \* Python's __debug__ (FALSE under python -O)
    defaultRelativeTo,  \* default of BudgetPeriod.__init__'s relative_to
    self,               \* the BudgetPeriod object under test, or None
    ret,                \* outcome of the last BudgetPeriod call
    walk,               \* frame of a running latest()/bounds_iter() loop
    config,             \* settings.budget of config.json
    budget,             \* the Budget object, or None
    bret,               \* outcome of the last Budget call
    frames,             \* the dataframe objects update_categories has seen
    cret,               \* outcome of the last update_categories call
    files,              \* the transactions cache and the pull-info file
    tret                \* outcome of the last maybe_pull_latest_transactions

vars == <<now, debug, defaultRelativeTo, self, ret, walk, config, budget, bret,
          frames, cret, files, tret>>

\* the state of src/user_modifications.py and src/transactions/selection.py
ioFrame == <<frames, cret, files, tret>>

None == [none |-> TRUE]

-----------------------------------------------------------------------------
(* Bounds of the model *)

\* the clock runs over days 0..MaxDay of Year0
MaxDay == 32
\* largest N of the "<N>_week" / "<N>_month" period strings
MaxUnit == 10
\* largest number of transaction rows
MaxRows == 2

Year0 == 2024

-----------------------------------------------------------------------------
(* Exact rationals standing for Python floats *)

RECURSIVE Gcd(_, _)
Gcd(a, b) == IF b = 0 THEN a ELSE Gcd(b, a % b)

Abs(a) == IF a < 0 THEN -a ELSE a

\* n/d in lowest terms with a positive denominator (d # 0)
Rat(n, d) ==
    LET g == Gcd(Abs(n), Abs(d))
        s == IF d < 0 THEN -1 ELSE 1
    IN  <<(s * n) \div g, (s * d) \div g>>

RInt(n) == <<n, 1>>
RAdd(a, b) == Rat(a[1] * b[2] + b[1] * a[2], a[2] * b[2])
RSub(a, b) == Rat(a[1] * b[2] - b[1] * a[2], a[2] * b[2])
RMul(a, b) == Rat(a[1] * b[1], a[2] * b[2])
RLess(a, b) == a[1] * b[2] < b[1] * a[2]
RLeq(a, b) == a[1] * b[2] <= b[1] * a[2]

RECURSIVE RSum(_)
RSum(s) == IF s = <<>> THEN RInt(0) ELSE RAdd(s[1], RSum(Tail(s)))

-----------------------------------------------------------------------------
(* Calendar: datetime.strptime / strftime("%Y-%m-%d") and relativedelta *)

IsLeap(y) == (y % 4 = 0 /\ y % 100 # 0) \/ y % 400 = 0

DaysInMonth(y, m) ==
    IF m = 2 THEN (IF IsLeap(y) THEN 29 ELSE 28)
    ELSE IF m \in {4, 6, 9, 11} THEN 30 ELSE 31

DaysInYear(y) == IF IsLeap(y) THEN 366 ELSE 365

RECURSIVE DaysBeforeYear(_)
DaysBeforeYear(y) == IF y <= Year0 THEN 0 ELSE DaysBeforeYear(y - 1) + DaysInYear(y - 1)

RECURSIVE DaysBeforeMonth(_, _)
DaysBeforeMonth(y, m) == IF m <= 1 THEN 0 ELSE DaysBeforeMonth(y, m - 1) + DaysInMonth(y, m - 1)

\* datetime.strptime(s, "%Y-%m-%d"): ISO string -> datetime
strptime(s) == DaysBeforeYear(s[1]) + DaysBeforeMonth(s[1], s[2]) + (s[3] - 1)

RECURSIVE YmdFrom(_, _, _)
YmdFrom(y, m, n) ==
    IF n >= DaysInYear(y) /\ m = 1 THEN YmdFrom(y + 1, 1, n - DaysInYear(y))
    ELSE IF n >= DaysInMonth(y, m) THEN YmdFrom(y, m + 1, n - DaysInMonth(y, m))
    ELSE <<y, m, n + 1>>

\* dt.strftime("%Y-%m-%d"): datetime -> ISO string
strftime(dt) == YmdFrom(Year0, 1, dt)

\* Python's str comparison of two ISO date strings
StrLess(a, b) ==
    \/ a[1] < b[1]
    \/ a[1] = b[1] /\ a[2] < b[2]
    \/ a[1] = b[1] /\ a[2] = b[2] /\ a[3] < b[3]

Min(a, b) == IF a < b THEN a ELSE b

\* a slip in the month arithmetic: a month is taken to be 30 days
AddMonthsMut(dt, n) == dt + 30 * n

\* dt + relativedelta(months=n): the day is clamped to the month's length
AddMonths(dt, n) ==
    LET s  == strftime(dt)
        k  == (s[2] - 1) + n
        y  == s[1] + (k \div 12)
        m  == (k % 12) + 1
    IN  strptime(<<y, m, Min(s[3], DaysInMonth(y, m))>>)

\* dt + relativedelta(years=n)
AddYears(dt, n) ==
    LET s == strftime(dt)
        y == s[1] + n
    IN  strptime(<<y, s[2], Min(s[3], DaysInMonth(y, s[2]))>>)

-----------------------------------------------------------------------------
(* Python strings *)

Digit == <<"0", "1", "2", "3", "4", "5", "6", "7", "8", "9">>

IsDigit(c) == \E i \in 1..10 : Digit[i] = c

\* int(c) of a one-character string that is a digit
DigitVal(c) == (CHOOSE i \in 1..10 : Digit[i] = c) - 1

\* str(n) for n >= 0
RECURSIVE Str(_)
Str(n) == IF n < 10 THEN <<Digit[n + 1]>> ELSE Str(n \div 10) \o <<Digit[(n % 10) + 1]>>

sWeek == <<"w", "e", "e", "k">>
sMonth == <<"m", "o", "n", "t", "h">>
sQuarter == <<"q", "u", "a", "r", "t", "e", "r">>
sYear == <<"y", "e", "a", "r">>
sDay == <<"d", "a", "y">>
sAllTime == <<"a", "l", "l", "_", "t", "i", "m", "e">>
sDate == <<"d", "a", "t", "e">>
sAmount == <<"a", "m", "o", "u", "n", "t">>
sCategory1 == <<"c", "a", "t", "e", "g", "o", "r", "y", "_", "1">>

\* "<N>_<word>"
NForm(n, word) == Str(n) \o <<"_">> \o word

\* re.search(r"\d_.*", s): a digit followed by "_" anywhere in s
ReSearchDigitUnderscore(s) ==
    \E i \in 1..(Len(s) - 1) : IsDigit(s[i]) /\ s[i + 1] = "_"

-----------------------------------------------------------------------------
(* budget.py: module level *)

\* INCREMENT_TO_DAY_MAP, with the day counts doubled to stay in the integers
\* (30.5 -> 61, 7 -> 14); only ratios of two entries are ever used
INCREMENT_TO_DAY_MAP == (sMonth :> 61) @@ (sDay :> 14)

\* now(): today's date as an ISO string
NowStr(clock) == strftime(clock)

Fail(e) == [ok |-> FALSE, err |-> e]

-----------------------------------------------------------------------------
(* class BudgetPeriod *)

\* a slip in line 36: the anchor is not checked against the clock
FutureAnchorMut(relative_to, clock) == FALSE

\* line 36: relative_to > now()
FutureAnchor(relative_to, clock) == StrLess(NowStr(clock), relative_to)

\* BudgetPeriod.__init__(period, relative_to) at clock reading `clock`
BudgetPeriodInit(period, relative_to, clock) ==
    IF FutureAnchor(relative_to, clock)
    THEN Fail("ValueError")
    ELSE IF period \in {sMonth, sWeek, sQuarter}
    THEN [ok |-> TRUE, err |-> "",
          obj |-> [period |-> period, relative_to |-> relative_to,
                   increment |-> IF period = sQuarter THEN sMonth ELSE period,
                   unit |-> IF period = sQuarter THEN 3 ELSE 1]]
    ELSE IF ReSearchDigitUnderscore(period)
    THEN IF ~IsDigit(period[1])
         THEN Fail("ValueError")     \* int(self.period[0]) raises
         ELSE LET inc == SubSeq(period, 3, Len(period))
                  u   == DigitVal(period[1])
              IN  [ok |-> TRUE, err |-> "",
                   obj |-> [period |-> period, relative_to |-> relative_to,
                            increment |-> IF inc = sQuarter THEN sMonth ELSE inc,
                            unit |-> IF inc = sQuarter THEN u * 3 ELSE u]]
    ELSE Fail("ValueError")

\* the keyword f"{increment}s" is accepted by relativedelta; the sub-day
\* keywords (hours, minutes, ...) are outside the modelled inputs
RelativeDeltaAccepts(increment) == increment \in {sYear, sMonth, sWeek, sDay}

\* start_date + relativedelta(**{f"{increment}s": unit})
AddDelta(dt, increment, unit) ==
    IF increment = sMonth THEN AddMonths(dt, unit)
    ELSE IF increment = sYear THEN AddYears(dt, unit)
    ELSE IF increment = sWeek THEN dt + 7 * unit
    ELSE dt + unit

\* the while loop of bounds_iter from start_date on; last is the pair yielded
\* last.  A step that does not advance start_date below now_date repeats for
\* ever: the generator never finishes.
RECURSIVE BoundsLoop(_, _, _, _)
BoundsLoop(p, start_date, now_date, last) ==
    IF start_date < now_date
    THEN LET end_date == AddDelta(start_date, p.increment, p.unit)
         IN  IF end_date = start_date
             THEN Fail("diverges")
             ELSE BoundsLoop(p, end_date, now_date,
                             <<strftime(start_date), strftime(end_date)>>)
    ELSE [ok |-> TRUE, err |-> "", last |-> last]

\* a for loop running bounds_iter() to exhaustion at clock reading `clock`:
\* the last pair yielded, <<>> when nothing was yielded, or the failure
BoundsIter(p, clock, dbg) ==
    LET start_date == strptime(p.relative_to)
        now_date   == strptime(NowStr(clock))
    IN  IF dbg /\ ~(start_date < now_date)
        THEN Fail("AssertionError")
        ELSE IF start_date < now_date /\ ~RelativeDeltaAccepts(p.increment)
        THEN Fail("TypeError")
        ELSE BoundsLoop(p, start_date, now_date, <<>>)

\* `for start, end in self.bounds_iter(): pass` followed by a return of a
\* loop variable: component k of the last pair yielded (b is the outcome of
\* running the generator)
LoopVariable(b, k) ==
    IF ~b.ok THEN b
    ELSE IF b.last = <<>> THEN Fail("UnboundLocalError")
    ELSE [ok |-> TRUE, err |-> "", date |-> b.last[k]]

\* BudgetPeriod.latest()
Latest(p, clock, dbg) == LoopVariable(BoundsIter(p, clock, dbg), 1)

\* BudgetPeriod.next()
NextDate(p, clock, dbg) == LoopVariable(BoundsIter(p, clock, dbg), 2)

\* the return statement of perc_complete: l and n are the outcomes of
\* self.latest() and self.next(), c3 the reading of datetime.now()
PercCompleteOf(l, n, c3) ==
    IF ~l.ok THEN l
    ELSE IF ~n.ok THEN n
    ELSE LET latest_date == strptime(l.date)
             next_date   == strptime(n.date)
         IN  IF next_date = latest_date
             THEN Fail("ZeroDivisionError")
             ELSE [ok |-> TRUE, err |-> "",
                   latest_date |-> l.date, next_date |-> n.date,
                   num |-> Rat(c3 - latest_date, next_date - latest_date)]

\* BudgetPeriod.perc_complete(); the three clock readings are those made in
\* latest(), in next() and by datetime.now()
PercCompleteAt(p, c1, c2, c3, dbg) ==
    PercCompleteOf(Latest(p, c1, dbg), NextDate(p, c2, dbg), c3)

PercComplete(p, clock, dbg) == PercCompleteAt(p, clock, clock, clock, dbg)

\* a slip in translation_multiplier: the branch for equal increments is
\* missing and every conversion goes through the day table
TranslationMultiplierMut(p, other_period) ==
    IF other_period.increment \notin DOMAIN INCREMENT_TO_DAY_MAP
       \/ p.increment \notin DOMAIN INCREMENT_TO_DAY_MAP
    THEN Fail("KeyError")
    ELSE IF p.unit = 0 THEN Fail("ZeroDivisionError")
    ELSE [ok |-> TRUE, err |-> "",
          num |-> Rat(other_period.unit * INCREMENT_TO_DAY_MAP[other_period.increment],
                      p.unit * INCREMENT_TO_DAY_MAP[p.increment])]

\* BudgetPeriod.translation_multiplier(other_period)
TranslationMultiplier(p, other_period) ==
    IF other_period.increment = p.increment
    THEN IF p.unit = 0 THEN Fail("ZeroDivisionError")
         ELSE [ok |-> TRUE, err |-> "", num |-> Rat(other_period.unit, p.unit)]
    ELSE IF other_period.increment \notin DOMAIN INCREMENT_TO_DAY_MAP
            \/ p.increment \notin DOMAIN INCREMENT_TO_DAY_MAP
    THEN Fail("KeyError")
    ELSE IF p.unit = 0 THEN Fail("ZeroDivisionError")
    ELSE [ok |-> TRUE, err |-> "",
          num |-> Rat(other_period.unit * INCREMENT_TO_DAY_MAP[other_period.increment],
                      p.unit * INCREMENT_TO_DAY_MAP[p.increment])]

-----------------------------------------------------------------------------
(* class BudgetItem, class TotalBudgetItem *)

\* BudgetItem.__init__(category, limit, period): type(period) is str
\* (isStr), or period is None or an already built BudgetPeriod
BudgetItemInit(category, limit, period, isStr, relative_to, clock) ==
    IF ~isStr
    THEN [ok |-> TRUE, err |-> "",
          obj |-> [category |-> category, limit |-> limit, period |-> period]]
    ELSE LET r == BudgetPeriodInit(period, relative_to, clock)
         IN  IF ~r.ok THEN Fail(r.err)
             ELSE [ok |-> TRUE, err |-> "",
                   obj |-> [category |-> category, limit |-> limit, period |-> r.obj]]

\* BudgetItem.period_limit(period)
PeriodLimit(item, period) ==
    IF item.period = None
    THEN [ok |-> TRUE, err |-> "", num |-> item.limit]
    ELSE LET t == TranslationMultiplier(item.period, period)
         IN  IF ~t.ok THEN t
             ELSE [ok |-> TRUE, err |-> "", num |-> RMul(item.limit, t.num)]

\* the return statement of under_projected_budget for an item with a period:
\* perc is the outcome of self.period.perc_complete()
ProjectedMinusSpent(perc, limit, amount_spent) ==
    IF ~perc.ok THEN perc
    ELSE [ok |-> TRUE, err |-> "",
          num |-> RSub(RMul(perc.num, limit), amount_spent)]

\* BudgetItem.under_projected_budget(amount_spent); c1, c2, c3 are the clock
\* readings of perc_complete()
UnderProjectedBudget(item, amount_spent, c1, c2, c3, dbg) ==
    IF item.period = None
    THEN [ok |-> TRUE, err |-> "", num |-> RSub(item.limit, amount_spent)]
    ELSE ProjectedMinusSpent(PercCompleteAt(item.period, c1, c2, c3, dbg),
                             item.limit, amount_spent)

\* a slip in on_track: spending exactly the projected amount is off track
NonNegativeMut(under) ==
    IF ~under.ok THEN under
    ELSE [ok |-> TRUE, err |-> "", num |-> under.num,
          flag |-> RLess(RInt(0), under.num)]

\* the return statement of on_track: under is the outcome of
\* self.under_projected_budget(amount_spent)
NonNegative(under) ==
    IF ~under.ok THEN under
    ELSE [ok |-> TRUE, err |-> "", num |-> under.num,
          flag |-> RLeq(RInt(0), under.num)]

\* BudgetItem.on_track(amount_spent)
OnTrack(item, amount_spent, c1, c2, c3, dbg) ==
    NonNegative(UnderProjectedBudget(item, amount_spent, c1, c2, c3, dbg))

\* TotalBudgetItem.__init__ after super().__init__ (outcome r): a total
\* item without a period is refused
RequirePeriod(r) ==
    IF ~r.ok THEN r
    ELSE IF r.obj.period = None THEN Fail("ValueError")
    ELSE r

\* TotalBudgetItem.__init__(limit, period)
TotalBudgetItemInit(limit, period, isStr, relative_to, clock) ==
    RequirePeriod(BudgetItemInit("total", limit, period, isStr, relative_to, clock))

-----------------------------------------------------------------------------
(* class BudgetPlan *)

\* {item.category: item for item in items}, as the sequence of the dict's
\* values in insertion order: a repeated key keeps its first position and
\* takes the last value
RECURSIVE DictValues(_, _)
DictValues(items, acc) ==
    IF items = <<>> THEN acc
    ELSE LET it == Head(items)
         IN  IF \E i \in 1..Len(acc) : acc[i].category = it.category
             THEN DictValues(Tail(items),
                             [i \in 1..Len(acc) |->
                                 IF acc[i].category = it.category THEN it ELSE acc[i]])
             ELSE DictValues(Tail(items), Append(acc, it))

\* the number of elements of seq equal to x
Count(seq, x) == Cardinality({i \in 1..Len(seq) : seq[i] = x})

\* Counter(seq).most_common(1)[0][0] of a non-empty seq: the element counted
\* most often, the one met first among equals
MostCommon(seq) ==
    LET best == CHOOSE i \in 1..Len(seq) :
                    /\ \A j \in 1..Len(seq) : Count(seq, seq[j]) <= Count(seq, seq[i])
                    /\ \A j \in 1..(i - 1) : Count(seq, seq[j]) < Count(seq, seq[i])
    IN  seq[best]

\* the first failed outcome of a sequence of outcomes, or <<>>
RECURSIVE FirstFailure(_)
FirstFailure(rs) ==
    IF rs = <<>> THEN <<>>
    ELSE IF ~Head(rs).ok THEN <<Fail(Head(rs).err)>>
    ELSE FirstFailure(Tail(rs))

\* a slip in lines 191-196: the category limits are summed as configured,
\* without rescaling them to the default period
SummedTotalMut(category_budgets, default_period, limits, relative_to, clock) ==
    [ok |-> TRUE, err |-> "",
     obj |-> [category_budgets |-> category_budgets,
              total_budget_item |->
                  TotalBudgetItemInit(
                      RSum([i \in 1..Len(category_budgets) |-> category_budgets[i].limit]),
                      default_period, FALSE, relative_to, clock).obj]]

\* lines 191-196: the limits (outcomes of period_limit) are summed into a
\* TotalBudgetItem of the default period
SummedTotal(category_budgets, default_period, limits, relative_to, clock) ==
    LET bad == FirstFailure(limits)
    IN  IF bad # <<>> THEN bad[1]
        ELSE [ok |-> TRUE, err |-> "",
              obj |-> [category_budgets |-> category_budgets,
                       total_budget_item |->
                           TotalBudgetItemInit(
                               RSum([i \in 1..Len(limits) |-> limits[i].num]),
                               default_period, FALSE, relative_to, clock).obj]]

\* lines 184-196: d is the outcome of BudgetPeriod(most common period string)
SynthesizedTotal(category_budgets, d, relative_to, clock) ==
    IF ~d.ok THEN Fail(d.err)
    ELSE SummedTotal(category_budgets, d.obj,
                     [i \in 1..Len(category_budgets) |->
                         PeriodLimit(category_budgets[i], d.obj)],
                     relative_to, clock)

\* a slip in BudgetPlan.__init__: the block that synthesizes a missing total
\* (lines 182-196) is left out
PlanOfMut(total_budget_item, category_budgets, relative_to, clock) ==
    [ok |-> TRUE, err |-> "",
     obj |-> [category_budgets |-> category_budgets,
              total_budget_item |-> total_budget_item]]

\* BudgetPlan.__init__ once self.category_budgets is built
PlanOf(total_budget_item, category_budgets, relative_to, clock) ==
    IF total_budget_item # None
    THEN [ok |-> TRUE, err |-> "",
          obj |-> [category_budgets |-> category_budgets,
                   total_budget_item |-> total_budget_item]]
    ELSE IF \E i \in 1..Len(category_budgets) : category_budgets[i].period = None
    THEN Fail("AttributeError")
    ELSE IF category_budgets = <<>>
    THEN Fail("IndexError")
    ELSE SynthesizedTotal(category_budgets,
                          BudgetPeriodInit(
                              MostCommon([i \in 1..Len(category_budgets) |->
                                             category_budgets[i].period.period]),
                              relative_to, clock),
                          relative_to, clock)

\* BudgetPlan.__init__(total_budget_item, category_budget_items);
\* category_budget_items is <<>> for None and <<list>> for a list
BudgetPlanInit(total_budget_item, category_budget_items, relative_to, clock) ==
    IF total_budget_item = None /\ category_budget_items = <<>>
    THEN Fail("ValueError")
    ELSE PlanOf(total_budget_item,
                IF category_budget_items = <<>> THEN <<>>
                ELSE DictValues(category_budget_items[1], <<>>),
                relative_to, clock)

\* dict.get(key, default) of a dict modelled as a function
Get(dict, key, default) == IF key \in DOMAIN dict THEN dict[key] ELSE default

\* the return statement of from_config: total and items are the outcomes of
\* building the total item and the category items
PlanFromItems(total, items, relative_to, clock) ==
    LET bad == FirstFailure(items)
    IN  IF ~total.ok THEN Fail(total.err)
        ELSE IF bad # <<>> THEN bad[1]
        ELSE BudgetPlanInit(total.obj,
                            IF Len(items) > 0
                            THEN <<[i \in 1..Len(items) |-> items[i].obj]>>
                            ELSE <<>>,
                            relative_to, clock)

\* BudgetPlan.from_config(config): config.total is <<>> when the key is absent
\* and <<x>> otherwise, config.period is the (possibly empty) period dict and
\* config.categories the sequence of the (category, limit) items
FromConfig(cfg, relative_to, clock) ==
    LET default_period == Get(cfg.period, "default", sMonth)
    IN  PlanFromItems(
            IF cfg.total # <<>> /\ cfg.total[1] # 0
            THEN TotalBudgetItemInit(RInt(cfg.total[1]), default_period, TRUE,
                                     relative_to, clock)
            ELSE [ok |-> TRUE, err |-> "", obj |-> None],
            [i \in 1..Len(cfg.categories) |->
                BudgetItemInit(cfg.categories[i].category,
                               RInt(cfg.categories[i].limit),
                               Get(cfg.period, cfg.categories[i].category, default_period),
                               TRUE, relative_to, clock)],
            relative_to, clock)

-----------------------------------------------------------------------------
(* class Budget *)

\* Budget.__init__ with p the outcome of BudgetPlan.from_config
BudgetOf(transactions_df, p) ==
    IF ~p.ok THEN Fail(p.err)
    ELSE [ok |-> TRUE, err |-> "",
          obj |-> [transactions_df |-> transactions_df, budget_plan |-> p.obj]]

\* Budget.__init__(transactions_df) with settings.budget = cfg (None when the
\* settings have no budget)
BudgetInit(transactions_df, cfg, relative_to, clock) ==
    IF cfg = None
    THEN [ok |-> TRUE, err |-> "",
          obj |-> [transactions_df |-> transactions_df, budget_plan |-> None]]
    ELSE BudgetOf(transactions_df, FromConfig(cfg, relative_to, clock))

\* row[column]: a row is a record of its columns, and a column name is a str
Cell(row, column) ==
    CASE column = sDate -> row.date
      [] column = sAmount -> row.amount
      [] column = sCategory1 -> row.category_1
      [] column = sWeek -> row.week
      [] column = sMonth -> row.month
      [] column = sYear -> row.year

\* a slip in the row filter: the mask is not applied
FilterEqMut(df, column, value) == df

\* df[df[column] == value]
FilterEq(df, column, value) == SelectSeq(df, LAMBDA row : Cell(row, column) = value)

\* df["amount"].sum()
RECURSIVE SumAmount(_)
SumAmount(df) == IF df = <<>> THEN 0 ELSE Cell(Head(df), sAmount) + SumAmount(Tail(df))

\* sum(list) of numbers
RECURSIVE SeqSum(_)
SeqSum(xs) == IF xs = <<>> THEN 0 ELSE Head(xs) + SeqSum(Tail(xs))

\* Budget.total_limit(date_inc)
TotalLimit(b, date_inc, relative_to, clock) ==
    LET bp == BudgetPeriodInit(date_inc, relative_to, clock)
    IN  IF ~bp.ok THEN Fail(bp.err)
        ELSE IF b.budget_plan = None THEN Fail("AttributeError")
        ELSE PeriodLimit(b.budget_plan.total_budget_item, bp.obj)

\* a slip in line 328: the categories' spending is not taken off
OtherSpentMut(curr_df, spent) == SumAmount(curr_df)

\* line 328: the "Other" row's spent
OtherSpent(curr_df, spent) == SumAmount(curr_df) - SeqSum(spent)

\* a slip in line 326: the categories' limits are not taken off
OtherLimitMut(total_limit, total_budget) == total_limit

\* line 326: the "Other" row's total_budget
OtherLimit(total_limit, total_budget) == RSub(total_limit, RSum(total_budget))

\* a slip in line 313: the limit is not scaled by the part of the period gone
ProjectedLimitMut(perc, limit) == limit

\* line 313: projected_limit = budget_period.perc_complete() * limit
ProjectedLimit(perc, limit) == RMul(perc, limit)

\* lines 324-332: the frame returned, with the "Other" row last
SummaryFrame(cats, curr_df, perc, total_limit, spent, total_budget) ==
    [ok |-> TRUE, err |-> "",
     rows |-> [i \in 1..Len(cats) |->
                  [category |-> cats[i].category,
                   spent |-> spent[i],
                   total_budget |-> total_budget[i],
                   projected_budget |-> ProjectedLimit(perc, total_budget[i])]]
              \o <<[category |-> "Other",
                    spent |-> OtherSpent(curr_df, spent),
                    total_budget |-> OtherLimit(total_limit, total_budget),
                    projected_budget |->
                        RMul(perc, OtherLimit(total_limit, total_budget))]>>]

\* lines 304-332: the loop over the category budgets and what follows it;
\* perc, total and limits[i] are the outcomes of perc_complete, total_limit
\* and period_limit.  One loop iteration fails in period_limit or else in
\* perc_complete
SummaryRows(cats, curr_df, perc, total, limits) ==
    LET bad == FirstFailure([i \in 1..Len(cats) |->
                                IF ~limits[i].ok THEN limits[i] ELSE perc])
    IN  IF bad # <<>> THEN bad[1]
        ELSE IF ~total.ok THEN Fail(total.err)
        ELSE IF ~perc.ok THEN Fail(perc.err)
        ELSE SummaryFrame(cats, curr_df, perc.num, total.num,
                          [i \in 1..Len(cats) |->
                              SumAmount(FilterEq(curr_df, sCategory1, cats[i].category))],
                          [i \in 1..Len(cats) |-> limits[i].num])

\* simple_summary once budget_period is built (outcome bp)
SummaryFor(b, date_inc, period, bp, total, clock, dbg) ==
    IF ~bp.ok THEN Fail(bp.err)
    ELSE IF b.budget_plan = None THEN Fail("AttributeError")
    ELSE SummaryRows(b.budget_plan.category_budgets,
                     FilterEq(b.transactions_df, date_inc, period),
                     PercComplete(bp.obj, clock, dbg),
                     total,
                     [i \in 1..Len(b.budget_plan.category_budgets) |->
                         PeriodLimit(b.budget_plan.category_budgets[i], bp.obj)])

\* Budget.simple_summary(date_inc, period): the rows of the returned frame
SimpleSummary(b, date_inc, period, relative_to, clock, dbg) ==
    SummaryFor(b, date_inc, period,
               BudgetPeriodInit(date_inc, relative_to, clock),
               TotalLimit(b, date_inc, relative_to, clock),
               clock, dbg)

-----------------------------------------------------------------------------
(* Inputs *)

\* the period strings handed to BudgetPeriod: the three named forms, every
\* "<N>_week" and "<N>_month" for N in 0..MaxUnit, and other strings
PeriodStrings ==
    {sWeek, sMonth, sQuarter}
    \cup {NForm(n, sWeek) : n \in 0..MaxUnit}
    \cup {NForm(n, sMonth) : n \in 0..MaxUnit}
    \cup {NForm(2, sYear), NForm(1, sDay), NForm(3, <<>>), NForm(2, sQuarter),
          sAllTime, sYear, <<"x", "1", "_", "w", "e", "e", "k">>, <<>>}

\* the relative_to strings handed to BudgetPeriod: the default and a month end
RelativeTos == {defaultRelativeTo, <<Year0, 1, 31>>}

NoCall == [op |-> "none", ok |-> TRUE, err |-> ""]

\* a call that never returns leaves the (single-threaded) program in it
Hung == (ret.err = "diverges") \/ (bret.err = "diverges")

\* f"{now()[:4]}-01-01", evaluated once when budget.py is imported
YearStart(clock) == <<NowStr(clock)[1], 1, 1>>

InitCommon ==
    /\ debug \in BOOLEAN
    /\ defaultRelativeTo = YearStart(now)
    /\ self = None
    /\ ret = NoCall
    /\ walk = None
    /\ config = None
    /\ budget = None
    /\ bret = NoCall
    /\ frames = None
    /\ cret = NoCall
    /\ files = None
    /\ tret = NoCall

-----------------------------------------------------------------------------
(* Spec: calls on one BudgetPeriod object as the clock advances *)

periodFrame == <<walk, config, budget, bret>>

\* midnight passes
Tick ==
    /\ ~Hung
    /\ now < MaxDay
    /\ now' = now + 1
    /\ ret' = NoCall
    /\ UNCHANGED <<debug, defaultRelativeTo, self, periodFrame, ioFrame>>

\* self = BudgetPeriod(period, relative_to): the one object of a run, built
\* on any day
New(period, relative_to) ==
    /\ ~Hung
    /\ self = None
    /\ LET r == BudgetPeriodInit(period, relative_to, now)
       IN  /\ self' = IF r.ok THEN r.obj ELSE None
           /\ ret' = [op |-> "init", ok |-> r.ok, err |-> r.err,
                      period |-> period, relative_to |-> relative_to]
    /\ UNCHANGED <<now, debug, defaultRelativeTo, periodFrame, ioFrame>>

\* self.latest()
CallLatest ==
    /\ ~Hung
    /\ self # None
    /\ ret' = [op |-> "latest"] @@ Latest(self, now, debug)
    /\ UNCHANGED <<now, debug, defaultRelativeTo, self, periodFrame, ioFrame>>

\* self.next()
CallNext ==
    /\ ~Hung
    /\ self # None
    /\ ret' = [op |-> "next"] @@ NextDate(self, now, debug)
    /\ UNCHANGED <<now, debug, defaultRelativeTo, self, periodFrame, ioFrame>>

\* self.perc_complete(); midnight may pass between its clock readings
CallPercComplete ==
    /\ ~Hung
    /\ self # None
    /\ \E c2, c3 \in {now, Min(now + 1, MaxDay)} :
          /\ c2 <= c3
          /\ ret' = [op |-> "perc_complete", clocks |-> <<now, c2, c3>>]
                        @@ PercCompleteAt(self, now, c2, c3, debug)
          /\ now' = c3
    /\ UNCHANGED <<debug, defaultRelativeTo, self, periodFrame, ioFrame>>

Init ==
    /\ now = 0
    /\ InitCommon

Next ==
    \/ Tick
    \/ \E period \in PeriodStrings : \E relative_to \in RelativeTos :
          New(period, relative_to)
    \/ CallLatest
    \/ CallNext
    \/ CallPercComplete

Spec == Init /\ [][Next]_vars

-----------------------------------------------------------------------------
(* SpecWalk: latest() and next() run one loop iteration at a time *)

\* a call of self.latest() (fn = "latest") or self.next() (fn = "next") enters
\* bounds_iter: lines 80-83
WalkCall(fn) ==
    /\ self # None
    /\ walk = None
    /\ LET start_date == strptime(self.relative_to)
           now_date   == strptime(NowStr(now))
       IN  walk' = IF debug /\ ~(start_date < now_date)
                   THEN [pc |-> "raised", fn |-> fn, err |-> "AssertionError"]
                   ELSE [pc |-> "loop", fn |-> fn, start_date |-> start_date,
                         now_date |-> now_date, yielded |-> <<>>]
    /\ UNCHANGED <<now, debug, defaultRelativeTo, self, ret, config, budget, bret, ioFrame>>

\* one test of the while condition: either one more pair is yielded to the
\* for loop of latest()/next(), or the generator is exhausted and the caller
\* returns the variable the for loop bound last
WalkStep ==
    /\ walk # None
    /\ walk.pc = "loop"
    /\ IF walk.start_date < walk.now_date
       THEN IF ~RelativeDeltaAccepts(self.increment)
            THEN walk' = [pc |-> "raised", fn |-> walk.fn, err |-> "TypeError"]
            ELSE LET end_date == AddDelta(walk.start_date, self.increment, self.unit)
                 IN  walk' = [walk EXCEPT
                                !.yielded = <<strftime(walk.start_date), strftime(end_date)>>,
                                !.start_date = end_date]
       ELSE IF walk.yielded = <<>>
            THEN walk' = [pc |-> "raised", fn |-> walk.fn, err |-> "UnboundLocalError"]
            ELSE walk' = [pc |-> "returned", fn |-> walk.fn,
                          date |-> IF walk.fn = "latest" THEN walk.yielded[1]
                                   ELSE walk.yielded[2]]
    /\ UNCHANGED <<now, debug, defaultRelativeTo, self, ret, config, budget, bret, ioFrame>>

\* the caller takes the result (or the exception) and the frame is gone
WalkExit ==
    /\ walk # None
    /\ walk.pc \in {"returned", "raised"}
    /\ ret' = IF walk.pc = "returned"
              THEN [op |-> walk.fn, ok |-> TRUE, err |-> "", date |-> walk.date]
              ELSE [op |-> walk.fn, ok |-> FALSE, err |-> walk.err]
    /\ walk' = None
    /\ UNCHANGED <<now, debug, defaultRelativeTo, self, config, budget, bret, ioFrame>>

\* midnight passes between two calls
WalkTick ==
    /\ walk = None
    /\ now < MaxDay
    /\ now' = now + 1
    /\ ret' = NoCall
    /\ UNCHANGED <<debug, defaultRelativeTo, self, walk, config, budget, bret, ioFrame>>

NextWalk ==
    \/ WalkTick
    \/ \E period \in PeriodStrings : \E relative_to \in RelativeTos :
          New(period, relative_to)
    \/ \E fn \in {"latest", "next"} : WalkCall(fn)
    \/ WalkStep
    \/ WalkExit

SpecWalk == Init /\ [][NextWalk]_vars

-----------------------------------------------------------------------------
(* The period forms of the specification *)

\* "<N>_week" or "<N>_month" with lo <= N <= MaxUnit
IsNForm(period, lo) ==
    \E n \in lo..MaxUnit : period \in {NForm(n, sWeek), NForm(n, sMonth)}

\* "week", "month", "quarter", "<N>_week" or "<N>_month" with N >= 1
ValidPeriodString(period) ==
    period \in {sWeek, sMonth, sQuarter} \/ IsNForm(period, 1)

-----------------------------------------------------------------------------
(* Claims C1-C8: BudgetPeriod *)

\* one-digit N: the strings the constructor reads as the claim says (the
\* other N are the subject of C6)
OneDigitForm(period) ==
    period \in {sWeek, sMonth, sQuarter}
    \/ \E n \in 1..9 : period \in {NForm(n, sWeek), NForm(n, sMonth)}

\* C1 (as claimed): for a period built from "<N>_week" or "<N>_month", N >= 1,
\* and anchor <= now, latest() returns a date <= now and next() returns a date
\* > now.  Stated here on the cases that involve neither C3 (anchor = now) nor
\* C6 (N of two digits): anchor < now and N in 1..9.
C1_LatestLeqNowLessNext ==
    (self # None /\ IsNForm(self.period, 1) /\ OneDigitForm(self.period)
        /\ StrLess(self.relative_to, NowStr(now))
        /\ ret.op \in {"latest", "next"}) =>
        /\ ret.ok
        /\ (ret.op = "latest" => ~StrLess(NowStr(now), ret.date))
        /\ (ret.op = "next" => StrLess(NowStr(now), ret.date))

\* C2 (as claimed): for a valid period, perc_complete() read at one clock value
\* equals (now - latest) / (next - latest) in whole days and lies in [0, 1).
\* Stated here on the cases that involve neither C3 nor C6, as C1 is.
C2_PercCompleteInUnitRange ==
    (self # None /\ OneDigitForm(self.period)
        /\ StrLess(self.relative_to, NowStr(now))
        /\ ret.op = "perc_complete" /\ ret.clocks = <<now, now, now>>) =>
        /\ ret.ok
        /\ ret.num = Rat(now - strptime(ret.latest_date),
                         strptime(ret.next_date) - strptime(ret.latest_date))
        /\ RLeq(RInt(0), ret.num)
        /\ RLess(ret.num, RInt(1))

\* C3 (as claimed): with the anchor date equal to the current date,
\* construction succeeds, latest() returns the anchor date and next() returns
\* the anchor advanced by unit increments; nothing is raised.
C3_AnchorTodayIsValid ==
    /\ (ret.op = "init" /\ ValidPeriodString(ret.period)
            /\ ret.relative_to = NowStr(now)) => ret.ok
    /\ (self # None /\ ValidPeriodString(self.period)
            /\ self.relative_to = NowStr(now) /\ ret.op \in {"latest", "next"}) =>
          /\ ret.ok
          /\ (ret.op = "latest" => ret.date = self.relative_to)
          /\ (ret.op = "next" =>
                ret.date = strftime(AddDelta(strptime(self.relative_to),
                                             self.increment, self.unit)))

\* C6 (as claimed): "week" -> (week, 1), "month" -> (month, 1), "quarter" ->
\* (month, 3), and "<N>_week" -> (week, N), "<N>_month" -> (month, N) for every
\* N >= 1, two-digit N included.
C6_ParseGivesIncrementAndUnit ==
    (ret.op = "init" /\ ~StrLess(NowStr(now), ret.relative_to)) =>
        /\ ret.period = sWeek => (ret.ok /\ self.increment = sWeek /\ self.unit = 1)
        /\ ret.period = sMonth => (ret.ok /\ self.increment = sMonth /\ self.unit = 1)
        /\ ret.period = sQuarter => (ret.ok /\ self.increment = sMonth /\ self.unit = 3)
        /\ \A n \in 1..MaxUnit :
              /\ ret.period = NForm(n, sWeek) =>
                    (ret.ok /\ self.increment = sWeek /\ self.unit = n)
              /\ ret.period = NForm(n, sMonth) =>
                    (ret.ok /\ self.increment = sMonth /\ self.unit = n)

\* C7 (as claimed): every string other than "week", "month", "quarter",
\* "<N>_week" and "<N>_month" is rejected when the BudgetPeriod is constructed.
C7_OtherStringsRejectedAtConstruction ==
    (ret.op = "init" /\ ret.period \notin {sWeek, sMonth, sQuarter}
        /\ ~IsNForm(ret.period, 0)) => ~ret.ok

\* C8 (as claimed): for every BudgetPeriod the constructor accepts, each pair
\* that bounds_iter yields ends strictly after it starts (the walk advances,
\* so latest() and next() reach now and terminate).
C8_WalkStrictlyIncreasing ==
    (walk # None /\ walk.pc = "loop" /\ walk.yielded # <<>>) =>
        strptime(walk.yielded[1]) < strptime(walk.yielded[2])

-----------------------------------------------------------------------------
(* SpecTranslate: translation_multiplier and period_limit on every pair of
   periods the constructor accepts.  Both are read-only, so each call is made
   on the object just built. *)

\* the limits of the budget items
ItemLimits == {100, 400}

\* self.translation_multiplier(BudgetPeriod(other))
CallTranslationMultiplier(other) ==
    /\ self # None
    /\ ret.op = "init"
    /\ LET o == BudgetPeriodInit(other, defaultRelativeTo, now)
       IN  /\ o.ok
           /\ ret' = [op |-> "translation_multiplier", other |-> o.obj]
                         @@ TranslationMultiplier(self, o.obj)
    /\ UNCHANGED <<now, debug, defaultRelativeTo, self, periodFrame, ioFrame>>

\* BudgetItem(category, limit, self).period_limit(BudgetPeriod(other))
CallPeriodLimit(limit, other) ==
    /\ self # None
    /\ ret.op = "init"
    /\ LET o  == BudgetPeriodInit(other, defaultRelativeTo, now)
           it == BudgetItemInit("A", RInt(limit), self, FALSE, defaultRelativeTo, now)
       IN  /\ o.ok
           /\ ret' = [op |-> "period_limit", limit |-> limit, other |-> o.obj]
                         @@ PeriodLimit(it.obj, o.obj)
    /\ UNCHANGED <<now, debug, defaultRelativeTo, self, periodFrame, ioFrame>>

NextTranslate ==
    \/ \E period \in PeriodStrings : New(period, defaultRelativeTo)
    \/ \E other \in PeriodStrings : CallTranslationMultiplier(other)
    \/ \E limit \in ItemLimits : \E other \in PeriodStrings : CallPeriodLimit(limit, other)

SpecTranslate == Init /\ [][NextTranslate]_vars

-----------------------------------------------------------------------------
(* SpecBudget: a Budget built from config.json and a transaction table.
   simple_summary and total_limit are read-only, so each call is made on the
   object just built. *)

\* the weekday (0 = Monday) of day 0, counted from Monday 2024-01-01
RECURSIVE DaysSince2024(_)
DaysSince2024(y) == IF y <= 2024 THEN 0 ELSE DaysSince2024(y - 1) + DaysInYear(y - 1)

EpochWeekday == DaysSince2024(Year0) % 7

\* st_dashboard.py lines 217-220: the week, month and year columns of a row.
\* "%V" is the ISO week; the formula is the ISO one for dates whose ISO week
\* lies in their own year.
IsoWeek(date) ==
    LET dt  == strptime(date)
        doy == dt - DaysBeforeYear(date[1]) + 1
        isoweekday == ((dt + EpochWeekday) % 7) + 1
    IN  (doy - isoweekday + 10) \div 7

Row(date, amount, category_1) ==
    [date |-> date, amount |-> amount, category_1 |-> category_1,
     week |-> <<date[1], IsoWeek(date)>>,
     month |-> <<date[1], date[2]>>,
     year |-> <<date[1]>>]

\* the transactions the tables are made of
TxRows ==
    {Row(<<Year0, 1, 10>>, 10, "A"),
     Row(<<Year0, 1, 20>>, 25, "C"),
     Row(<<Year0, 2, 5>>, 40, "B")}

\* the transaction tables: at most MaxRows rows
TxTables == UNION {[1..n -> TxRows] : n \in 0..MaxRows}

\* the date increments of the dashboard's select box
DateIncs == {sMonth, sWeek, sYear}

\* the values of column date_inc to drill into: those of the rows, and one
\* that no row has
PeriodValues(date_inc) ==
    {Cell(r, date_inc) : r \in TxRows}
    \cup {IF date_inc = sYear THEN <<Year0 - 1>> ELSE <<Year0 - 1, 12>>}

EmptyDict == [k \in {} |-> <<>>]

\* settings.budget of config.json: none, or a total (or 0, or none), a period
\* dict and the categories
Configs ==
    {None} \cup
    {[total |-> t, period |-> d @@ b, categories |-> cs] :
        t \in {<<>>, <<0>>, <<400>>},
        d \in {EmptyDict, "default" :> sWeek, "default" :> NForm(2, sMonth)},
        b \in {EmptyDict, "B" :> sWeek, "B" :> NForm(2, sMonth)},
        cs \in {<<>>,
                <<[category |-> "A", limit |-> 100]>>,
                <<[category |-> "A", limit |-> 100], [category |-> "B", limit |-> 50]>>,
                <<[category |-> "B", limit |-> 50], [category |-> "A", limit |-> 100]>>}}

\* budget = Budget(transactions_df)
NewBudget(transactions_df) ==
    /\ budget = None
    /\ \E r \in {BudgetInit(transactions_df, config, defaultRelativeTo, now)} :
          /\ budget' = IF r.ok THEN r.obj ELSE None
          /\ bret' = [op |-> "init", ok |-> r.ok, err |-> r.err]
    /\ UNCHANGED <<now, debug, defaultRelativeTo, self, ret, walk, config, ioFrame>>

\* budget.simple_summary(date_inc, period)
CallSimpleSummary(date_inc, period) ==
    /\ budget # None
    /\ bret.op = "init"
    /\ bret' = [op |-> "simple_summary", date_inc |-> date_inc, period |-> period]
                  @@ SimpleSummary(budget, date_inc, period, defaultRelativeTo, now, debug)
    /\ UNCHANGED <<now, debug, defaultRelativeTo, self, ret, walk, config, budget, ioFrame>>

\* budget.total_limit(date_inc)
CallTotalLimit(date_inc) ==
    /\ budget # None
    /\ bret.op = "init"
    /\ bret' = [op |-> "total_limit", date_inc |-> date_inc]
                  @@ TotalLimit(budget, date_inc, defaultRelativeTo, now)
    /\ UNCHANGED <<now, debug, defaultRelativeTo, self, ret, walk, config, budget, ioFrame>>

\* the days the program is run on: New Year's Day and a later day
RunDays == {0, 9}

InitBudget ==
    /\ now \in RunDays
    /\ debug \in BOOLEAN
    /\ defaultRelativeTo = YearStart(now)
    /\ self = None
    /\ ret = NoCall
    /\ walk = None
    /\ config \in Configs
    /\ budget = None
    /\ bret = NoCall
    /\ frames = None
    /\ cret = NoCall
    /\ files = None
    /\ tret = NoCall

NextBudget ==
    \/ \E transactions_df \in TxTables : NewBudget(transactions_df)
    \/ \E date_inc \in DateIncs : \E period \in PeriodValues(date_inc) :
          CallSimpleSummary(date_inc, period)
    \/ \E date_inc \in DateIncs : CallTotalLimit(date_inc)

SpecBudget == InitBudget /\ [][NextBudget]_vars

-----------------------------------------------------------------------------
(* Claims C4, C5: rescaling between periods *)

\* the day lengths the specification gives (doubled): week 7, month 30.5
ClaimedDays == (sWeek :> 14) @@ (sMonth :> 61)

\* the conversion factor the specification gives from period a to period b
ClaimedMultiplier(a, b) ==
    IF a.increment = b.increment THEN Rat(b.unit, a.unit)
    ELSE Rat(b.unit * ClaimedDays[b.increment], a.unit * ClaimedDays[a.increment])

\* C4 (as claimed): for a week period and a month period, in either order,
\* translation_multiplier returns (target.unit * days(target.increment)) /
\* (self.unit * days(self.increment)) with days(week) = 7, days(month) = 30.5;
\* a monthly limit of 400 rescaled to a one-week period is 400 * 7 / 30.5.
C4_CrossIncrementMultiplier ==
    /\ (ret.op = "translation_multiplier" /\ self.unit > 0
            /\ {self.increment, ret.other.increment} = {sWeek, sMonth}) =>
          (ret.ok /\ ret.num = ClaimedMultiplier(self, ret.other))
    /\ (ret.op = "period_limit" /\ ret.limit = 400
            /\ self.period = sMonth /\ ret.other.period = sWeek) =>
          (ret.ok /\ ret.num = Rat(400 * 14, 61))

\* the period string of the i-th category item of the config
ConfigPeriod(cfg, i) ==
    Get(cfg.period, cfg.categories[i].category, Get(cfg.period, "default", sMonth))

\* the period the specification gives the synthesized total: the one most
\* category items have, the first met among equals
ClaimedTotalPeriod(cfg) ==
    LET n == Len(cfg.categories)
        cnt(i) == Cardinality({j \in 1..n : ConfigPeriod(cfg, j) = ConfigPeriod(cfg, i)})
        first == CHOOSE i \in 1..n :
                    /\ \A j \in 1..n : cnt(j) <= cnt(i)
                    /\ \A j \in 1..(i - 1) : cnt(j) < cnt(i)
    IN  ConfigPeriod(cfg, first)

\* the limit the specification gives the synthesized total
ClaimedTotalLimit(cfg) ==
    LET target == BudgetPeriodInit(ClaimedTotalPeriod(cfg), defaultRelativeTo, now).obj
    IN  RSum([i \in 1..Len(cfg.categories) |->
                 RMul(RInt(cfg.categories[i].limit),
                      ClaimedMultiplier(
                          BudgetPeriodInit(ConfigPeriod(cfg, i), defaultRelativeTo, now).obj,
                          target))])

\* C5 (as claimed): a plan built with no total and a non-empty list of
\* category items has a total item whose period is the most frequent period
\* of the category items (the first met on a tie) and whose limit is the sum
\* of the category limits rescaled to that period (A: 100 per month and B: 50
\* per week give month and 100 + 50 * 30.5 / 7).
C5_SynthesizedTotal ==
    (bret.op = "init" /\ config # None
        /\ (config.total = <<>> \/ config.total = <<0>>)
        /\ config.categories # <<>>) =>
        /\ bret.ok
        /\ budget.budget_plan.total_budget_item.period.period = ClaimedTotalPeriod(config)
        /\ budget.budget_plan.total_budget_item.limit = ClaimedTotalLimit(config)

-----------------------------------------------------------------------------
(* Claims C9, C10: the conservation laws of simple_summary *)

\* the sum of amount over the rows of df whose column holds value
RECURSIVE BucketTotal(_, _, _)
BucketTotal(df, column, value) ==
    IF df = <<>> THEN 0
    ELSE (IF Cell(Head(df), column) = value THEN Head(df).amount ELSE 0)
         + BucketTotal(Tail(df), column, value)

Returned == bret.op = "simple_summary" /\ bret.ok

\* C9: in the rows simple_summary(date_inc, period) returns, the spent of the
\* category rows plus the spent of the last row, "Other", is the sum of amount
\* over the transactions whose column date_inc holds period.
C9_SpentIsConserved ==
    Returned =>
        /\ bret.rows[Len(bret.rows)].category = "Other"
        /\ SeqSum([i \in 1..Len(bret.rows) |-> bret.rows[i].spent])
              = BucketTotal(budget.transactions_df, bret.date_inc, bret.period)

\* a summary of a bucket with spending both in a budgeted category and outside
\* the budgeted categories
C9_Witness ==
    /\ Returned
    /\ Len(bret.rows) >= 2
    /\ bret.rows[1].spent > 0
    /\ bret.rows[Len(bret.rows)].spent > 0

\* C10: in the rows simple_summary(date_inc, period) returns, the total_budget
\* of the category rows plus the total_budget of the "Other" row is the limit
\* of the plan's total item rescaled to the period built from date_inc.
C10_BudgetIsConserved ==
    Returned =>
        /\ bret.rows[Len(bret.rows)].category = "Other"
        /\ RSum([i \in 1..Len(bret.rows) |-> bret.rows[i].total_budget])
              = RMul(budget.budget_plan.total_budget_item.limit,
                     ClaimedMultiplier(
                         budget.budget_plan.total_budget_item.period,
                         BudgetPeriodInit(bret.date_inc, defaultRelativeTo, now).obj))

\* a summary with two category rows of different limits and a total that
\* leaves "Other" a budget of its own
C10_Witness ==
    /\ Returned
    /\ Len(bret.rows) = 3
    /\ bret.rows[1].total_budget # bret.rows[2].total_budget
    /\ bret.rows[3].total_budget # RInt(0)
    /\ budget.budget_plan.total_budget_item.period.unit
          # BudgetPeriodInit(bret.date_inc, defaultRelativeTo, now).obj.unit

-----------------------------------------------------------------------------
(* Claims C11..C13: the rows of simple_summary *)

\* the category items of the plan the summary was made from
PlanItems == budget.budget_plan.category_budgets

\* the period built from the date_inc of the summary returned
QueriedPeriod == BudgetPeriodInit(bret.date_inc, defaultRelativeTo, now).obj

\* C11 (as claimed): each category row's projected figure is the item's own
\* period's perc_complete() times the item's own configured limit.
C11_ProjectedIsItemAllowance ==
    Returned =>
        \A i \in 1..Len(PlanItems) :
            bret.rows[i].projected_budget
                = RMul(PercComplete(PlanItems[i].period, now, debug).num,
                       PlanItems[i].limit)

\* C11 (as amended): each category row's projected figure is the queried
\* period's perc_complete() times the item's limit rescaled to the queried
\* period.
C11_ProjectedIsQueriedShare ==
    Returned =>
        \A i \in 1..Len(PlanItems) :
            bret.rows[i].projected_budget
                = RMul(PercComplete(QueriedPeriod, now, debug).num,
                       RMul(PlanItems[i].limit,
                            ClaimedMultiplier(PlanItems[i].period, QueriedPeriod)))

\* a summary of a plan with an item whose period is not the queried one, part
\* of the way through the queried period
C11_Witness ==
    /\ Returned
    /\ Len(PlanItems) >= 1
    /\ PlanItems[1].period.unit # QueriedPeriod.unit
    /\ bret.rows[1].projected_budget # RInt(0)
    /\ bret.rows[1].projected_budget # bret.rows[1].total_budget

\* the sum of amount over the rows of df whose column holds value and whose
\* category_1 is category
RECURSIVE CategoryBucketTotal(_, _, _, _)
CategoryBucketTotal(df, column, value, category) ==
    IF df = <<>> THEN 0
    ELSE (IF Cell(Head(df), column) = value /\ Head(df).category_1 = category
          THEN Head(df).amount ELSE 0)
         + CategoryBucketTotal(Tail(df), column, value, category)

\* C12: simple_summary returns one row per category of the plan, in the order
\* the categories were inserted (the order of config.json), then one row
\* "Other" as the last row; a category row's spent is the sum of amount over
\* the transactions of the selected bucket whose category_1 is that category.
C12_RowsFollowPlanOrder ==
    Returned =>
        /\ Len(bret.rows) = Len(config.categories) + 1
        /\ bret.rows[Len(bret.rows)].category = "Other"
        /\ \A i \in 1..Len(config.categories) :
              /\ bret.rows[i].category = config.categories[i].category
              /\ bret.rows[i].spent
                    = CategoryBucketTotal(budget.transactions_df, bret.date_inc,
                                          bret.period, bret.rows[i].category)

\* a summary of a plan of two categories, B before A, over a bucket in which
\* the second category has spending and another transaction lies outside it
C12_Witness ==
    /\ Returned
    /\ Len(bret.rows) = 3
    /\ bret.rows[1].category = "B"
    /\ bret.rows[2].category = "A"
    /\ bret.rows[2].spent > 0
    /\ Len(budget.transactions_df) = 2
    /\ bret.rows[2].spent + bret.rows[3].spent < SumAmount(budget.transactions_df)

\* no transaction of the table has the selected period value in column date_inc
EmptyBucket ==
    \A k \in 1..Len(budget.transactions_df) :
        Cell(budget.transactions_df[k], bret.date_inc) # bret.period

\* C13: when no transaction has the selected period value as its bucket label,
\* simple_summary raises no error where the summary of another bucket of the
\* same table returns, and returns every plan category and "Other" with
\* spent = 0 and with the budgeted values that other summary has.
C13_EmptyBucketIsZeroSpent ==
    (bret.op = "simple_summary" /\ EmptyBucket) =>
        /\ bret.ok =>
              /\ Len(bret.rows) = Len(config.categories) + 1
              /\ \A i \in 1..Len(bret.rows) : bret.rows[i].spent = 0
        /\ \A p2 \in PeriodValues(bret.date_inc) :
              \A other \in {SimpleSummary(budget, bret.date_inc, p2,
                                          defaultRelativeTo, now, debug)} :
                  other.ok =>
                      /\ bret.ok
                      /\ Len(bret.rows) = Len(other.rows)
                      /\ \A i \in 1..Len(other.rows) :
                            /\ bret.rows[i].category = other.rows[i].category
                            /\ bret.rows[i].total_budget = other.rows[i].total_budget

\* a summary of a bucket without transactions, of a table that has
\* transactions in other buckets, under a plan of two categories
C13_Witness ==
    /\ Returned
    /\ EmptyBucket
    /\ Len(budget.transactions_df) = 2
    /\ Len(bret.rows) = 3
    /\ bret.rows[1].total_budget # RInt(0)

-----------------------------------------------------------------------------
(* Claim C14: one value of "now" per call *)

\* C14 (as claimed): a call of perc_complete() observes a single value of
\* now: also when midnight passes between the clock readings made in latest(),
\* in next() and in perc_complete(), the start and end dates used are the
\* bounds of one interval, and the result is the one a single reading gives.
\* Stated on the period strings the constructor reads as documented.
C14_SingleNowPerCall ==
    (ret.op = "perc_complete" /\ ret.ok /\ OneDigitForm(self.period)) =>
        \E c \in {ret.clocks[1], ret.clocks[2], ret.clocks[3]} :
            \E single \in {PercComplete(self, c, debug)} :
                /\ single.ok
                /\ single.latest_date = ret.latest_date
                /\ single.next_date = ret.next_date
                /\ single.num = ret.num

-----------------------------------------------------------------------------
(* Claims C15, C16: the date increments and period forms on offer *)

\* the increments of the periods of the plan's items, the total among them
PlanIncrements ==
    {PlanItems[i].period.increment : i \in 1..Len(PlanItems)}
    \cup {budget.budget_plan.total_budget_item.period.increment}

\* C15 (as claimed): simple_summary(date_inc, period) and total_limit(date_inc)
\* return a result for each of the date increments "month", "week" and "year".
\* Stated on the calls that involve neither C3 (a summary on the anchor day)
\* nor C4 (a week or month increment other than that of the plan's periods).
C15_EveryDateIncReturns ==
    (bret.op \in {"simple_summary", "total_limit"}
        /\ bret.date_inc \in {sMonth, sWeek, sYear}
        /\ budget.budget_plan # None
        /\ (bret.op = "simple_summary" => StrLess(defaultRelativeTo, NowStr(now)))
        /\ (bret.date_inc # sYear => PlanIncrements = {bret.date_inc})) =>
        bret.ok

\* C16 (as claimed): the period string "all_time" is an accepted period form:
\* BudgetPeriod("all_time") constructs successfully (and so do a BudgetItem
\* and a plan whose category period is "all_time").
C16_AllTimeIsAccepted ==
    (ret.op = "init" /\ ret.period = sAllTime) => ret.ok

-----------------------------------------------------------------------------
(* Claim C17: perc_complete() as the days pass *)

\* day is one of the boundary dates of period p after the one at d: a start
\* date of an interval (p.unit >= 1)
RECURSIVE IsBoundaryAfter(_, _, _)
IsBoundaryAfter(p, d, day) ==
    LET e == AddDelta(d, p.increment, p.unit)
    IN  IF e >= day THEN e = day ELSE IsBoundaryAfter(p, e, day)

\* C17 (as claimed): as the current date advances one day at a time,
\* perc_complete() does not decrease while now stays within one interval, and
\* on the day now is the start date of an interval (a boundary date after the
\* anchor) perc_complete() is 0.  Stated for anchor < now and one-digit N.
C17_PercCompleteRisesFromZero ==
    (self # None /\ OneDigitForm(self.period)
        /\ StrLess(self.relative_to, NowStr(now))
        /\ ret.op = "perc_complete" /\ ret.clocks = <<now, now, now>>) =>
        /\ ret.ok
        /\ IsBoundaryAfter(self, strptime(self.relative_to), now) =>
              ret.num = RInt(0)
        /\ (~IsBoundaryAfter(self, strptime(self.relative_to), now)
                /\ strptime(self.relative_to) < now - 1) =>
              RLeq(PercComplete(self, now - 1, debug).num, ret.num)

-----------------------------------------------------------------------------
(* Claims C18, C19: algebra of translation_multiplier and period_limit *)

\* C18 (as claimed): for valid periods A and B, of the same or of different
\* increments and any positive units, A.translation_multiplier(B) *
\* B.translation_multiplier(A) = 1.  Stated for one-digit N (C6).
C18_MultiplierHasInverse ==
    (ret.op = "translation_multiplier"
        /\ OneDigitForm(self.period) /\ OneDigitForm(ret.other.period)) =>
        \E back \in {TranslationMultiplier(ret.other, self)} :
            /\ ret.ok
            /\ back.ok
            /\ RMul(ret.num, back.num) = RInt(1)

\* C19: for a budget item with a period (of a positive unit), period_limit of
\* a target period with the same increment and the same unit as the item's own
\* period returns exactly the item's limit, also when the two periods were
\* written with different strings ("quarter" and "3_month").
C19_PeriodLimitIdentity ==
    (ret.op = "period_limit" /\ self.unit > 0
        /\ ret.other.increment = self.increment
        /\ ret.other.unit = self.unit) =>
        /\ ret.ok
        /\ ret.num = RInt(ret.limit)

\* the limit of a quarterly item asked for a period of three months
C19_Witness ==
    /\ ret.op = "period_limit"
    /\ ret.ok
    /\ self.period = sQuarter
    /\ ret.other.period = NForm(3, sMonth)
    /\ ret.limit = 400

-----------------------------------------------------------------------------
(* SpecItem: a BudgetItem asked how it stands on the day it is built, which
   is any day; the item is built around the period object of the run, or
   without a period *)

\* the amounts handed to under_projected_budget and on_track
AmountsSpent == {0, 100, 150}

\* the item the calls are made on: BudgetItem("A", limit, self) or
\* BudgetItem("A", limit, None)
ItemOf(limit, withPeriod) ==
    BudgetItemInit("A", RInt(limit), IF withPeriod THEN self ELSE None, FALSE,
                   defaultRelativeTo, now).obj

\* item.under_projected_budget(amount_spent); midnight may pass between the
\* clock readings of perc_complete()
CallUnderProjectedBudget(limit, amount_spent, withPeriod) ==
    /\ self # None
    /\ ret.op = "init"
    /\ \E c2, c3 \in {now, Min(now + 1, MaxDay)} :
          /\ c2 <= c3
          /\ withPeriod \/ c3 = now
          /\ ret' = [op |-> "under_projected_budget", limit |-> limit,
                     amount_spent |-> amount_spent, withPeriod |-> withPeriod,
                     clocks |-> <<now, c2, c3>>]
                        @@ UnderProjectedBudget(ItemOf(limit, withPeriod),
                                                RInt(amount_spent), now, c2, c3, debug)
          /\ now' = c3
    /\ UNCHANGED <<debug, defaultRelativeTo, self, periodFrame, ioFrame>>

\* item.on_track(amount_spent)
CallOnTrack(limit, amount_spent, withPeriod) ==
    /\ self # None
    /\ ret.op = "init"
    /\ \E c2, c3 \in {now, Min(now + 1, MaxDay)} :
          /\ c2 <= c3
          /\ withPeriod \/ c3 = now
          /\ ret' = [op |-> "on_track", limit |-> limit,
                     amount_spent |-> amount_spent, withPeriod |-> withPeriod,
                     clocks |-> <<now, c2, c3>>]
                        @@ OnTrack(ItemOf(limit, withPeriod),
                                   RInt(amount_spent), now, c2, c3, debug)
          /\ now' = c3
    /\ UNCHANGED <<debug, defaultRelativeTo, self, periodFrame, ioFrame>>

NextItem ==
    \/ Tick
    \/ \E period \in PeriodStrings : New(period, defaultRelativeTo)
    \/ \E limit \in ItemLimits : \E amount_spent \in AmountsSpent :
          \E withPeriod \in BOOLEAN :
              CallUnderProjectedBudget(limit, amount_spent, withPeriod)
    \/ \E limit \in ItemLimits : \E amount_spent \in AmountsSpent :
          \E withPeriod \in BOOLEAN :
              CallOnTrack(limit, amount_spent, withPeriod)

SpecItem == Init /\ [][NextItem]_vars

\* the value the claim gives under_projected_budget: perc_complete() * limit
\* - amount_spent for an item with a period, limit - amount_spent without
ClaimedUnder ==
    IF ret.withPeriod
    THEN RSub(RMul(PercCompleteAt(self, ret.clocks[1], ret.clocks[2],
                                  ret.clocks[3], debug).num,
                   RInt(ret.limit)),
              RInt(ret.amount_spent))
    ELSE RInt(ret.limit - ret.amount_spent)

\* C20: under_projected_budget(amount_spent) is perc_complete() * limit -
\* amount_spent when the item has a period and limit - amount_spent when it
\* has none (and fails only where perc_complete() fails), and
\* on_track(amount_spent) is true exactly when that value is >= 0.
C20_UnderProjectedAndOnTrack ==
    (ret.op \in {"under_projected_budget", "on_track"}) =>
        /\ ret.ok = (~ret.withPeriod
                        \/ PercCompleteAt(self, ret.clocks[1], ret.clocks[2],
                                          ret.clocks[3], debug).ok)
        /\ ret.ok =>
              /\ ret.op = "under_projected_budget" => ret.num = ClaimedUnder
              /\ ret.op = "on_track" =>
                    (ret.flag = (ClaimedUnder[1] >= 0))

\* on_track asked of an item with a period, a quarter of the way through an
\* interval, that has spent exactly its projected amount
C20_Witness ==
    /\ ret.op = "on_track"
    /\ ret.ok
    /\ ret.withPeriod
    /\ ret.flag
    /\ ret.limit = 400
    /\ ret.amount_spent = 100
    /\ ClaimedUnder = RInt(0)

-----------------------------------------------------------------------------
(* Claims C23..C25, C29 *)

\* C23: constructing a BudgetPeriod whose anchor date is later than the
\* current date fails and yields no period object; with an anchor strictly
\* earlier than the current date (and a period string of a documented form)
\* construction succeeds.
C23_FutureAnchorIsRefused ==
    ret.op = "init" =>
        /\ StrLess(NowStr(now), ret.relative_to) =>
              (~ret.ok /\ ret.err = "ValueError" /\ self = None)
        /\ (StrLess(ret.relative_to, NowStr(now)) /\ ValidPeriodString(ret.period)) =>
              (ret.ok /\ self # None /\ self.relative_to = ret.relative_to)

\* a construction refused although its period string is a documented one: the
\* anchor lies after the current date
C23_Witness ==
    /\ ret.op = "init"
    /\ ~ret.ok
    /\ ret.period = sMonth
    /\ StrLess(NowStr(now), ret.relative_to)
    /\ now > 0

-----------------------------------------------------------------------------
(* SpecPlan: plans built directly with BudgetPlan(...) and with
   BudgetPlan.from_config(config), on any day *)

\* the total_budget_item arguments: None or TotalBudgetItem(400, "month")
PlanTotals ==
    {None, TotalBudgetItemInit(RInt(400), sMonth, TRUE, defaultRelativeTo, now).obj}

\* the category_budget_items arguments: None (<<>>), the empty list, and lists
\* of items with a period string, with a period of None, and of two items
PlanItemLists ==
    LET a == BudgetItemInit("A", RInt(100), sMonth, TRUE, defaultRelativeTo, now).obj
        b == BudgetItemInit("B", RInt(50), NForm(2, sMonth), TRUE, defaultRelativeTo, now).obj
        s == BudgetItemInit("S", RInt(1000), None, FALSE, defaultRelativeTo, now).obj
    IN  {<<>>, << <<>> >>, << <<a>> >>, << <<s>> >>, << <<a, b>> >>, << <<b, s>> >>}

\* BudgetPlan(total_budget_item, category_budget_items)
CallBudgetPlan(total_budget_item, category_budget_items) ==
    /\ bret.op = "none"
    /\ bret' = [op |-> "BudgetPlan", total |-> total_budget_item,
                items |-> category_budget_items]
                  @@ BudgetPlanInit(total_budget_item, category_budget_items,
                                    defaultRelativeTo, now)
    /\ UNCHANGED <<now, debug, defaultRelativeTo, self, ret, walk, config, budget, ioFrame>>

\* BudgetPlan.from_config(cfg)
CallFromConfig(cfg) ==
    /\ bret.op = "none"
    /\ bret' = [op |-> "from_config", cfg |-> cfg]
                  @@ FromConfig(cfg, defaultRelativeTo, now)
    /\ UNCHANGED <<now, debug, defaultRelativeTo, self, ret, walk, config, budget, ioFrame>>

\* midnight passes before the plan is built
PlanTick ==
    /\ bret.op = "none"
    /\ now < MaxDay
    /\ now' = now + 1
    /\ UNCHANGED <<debug, defaultRelativeTo, self, ret, walk, config, budget, bret, ioFrame>>

NextPlan ==
    \/ PlanTick
    \/ \E total_budget_item \in PlanTotals :
          \E category_budget_items \in PlanItemLists :
              CallBudgetPlan(total_budget_item, category_budget_items)
    \/ \E cfg \in Configs \ {None} : CallFromConfig(cfg)

SpecPlan == Init /\ [][NextPlan]_vars

\* C24: building a plan fails with an error whenever there is neither a total
\* nor any category limit: BudgetPlan(None, None), BudgetPlan(None, []) and
\* from_config on a config with no (or a zero) total and no (or empty)
\* categories all raise and produce no plan.
C24_NothingToPlanIsRefused ==
    /\ (bret.op = "BudgetPlan" /\ bret.total = None
            /\ bret.items \in {<<>>, << <<>> >>}) => ~bret.ok
    /\ (bret.op = "from_config" /\ bret.cfg.total \in {<<>>, <<0>>}
            /\ bret.cfg.categories = <<>>) => ~bret.ok

\* BudgetPlan(None, []) has been refused
C24_Witness ==
    /\ bret.op = "BudgetPlan"
    /\ bret.total = None
    /\ bret.items = << <<>> >>
    /\ ~bret.ok
    /\ bret.err = "IndexError"

\* date b is date a advanced by n calendar increments: n weeks later, or the
\* same day of the month n months later (the last day of that month when the
\* month is too short)
CalendarAdvance(a, b, increment, n) ==
    IF increment = sWeek
    THEN strptime(b) - strptime(a) = 7 * n
    ELSE /\ (b[1] * 12 + b[2]) - (a[1] * 12 + a[2]) = n
         /\ b[3] = Min(a[3], DaysInMonth(b[1], b[2]))

\* C25: for a valid period with unit N and increment I, each pair (start, end)
\* of the interval walk, the pair that latest() and next() return included,
\* has end = start advanced by exactly N calendar increments of I, and the
\* next interval starts at that end.  Stated for one-digit N (C6).
C25_NextIsLatestPlusUnit ==
    (walk # None /\ walk.pc = "loop" /\ walk.yielded # <<>>
        /\ OneDigitForm(self.period)) =>
        /\ CalendarAdvance(walk.yielded[1], walk.yielded[2], self.increment, self.unit)
        /\ walk.start_date = strptime(walk.yielded[2])
        /\ strftime(walk.start_date) = walk.yielded[2]

\* a monthly walk from 31 January: the interval ends on the last day of
\* February, not 31 days later
C25_Witness ==
    /\ walk # None
    /\ walk.pc = "loop"
    /\ self.period = sMonth
    /\ walk.yielded # <<>>
    /\ walk.yielded[1] = <<Year0, 1, 31>>
    /\ walk.yielded[2][2] = 2

\* C29: when the plan's total is synthesized from the category items (no
\* explicit total), the "Other" row of every summary returned has
\* total_budget = 0: rescaling each category limit to the default period,
\* summing, and rescaling the sum to the queried period gives the sum of the
\* category limits rescaled directly to the queried period.
C29_SynthesizedTotalLeavesNoOther ==
    (Returned /\ config.total \in {<<>>, <<0>>}) =>
        /\ bret.rows[Len(bret.rows)].category = "Other"
        /\ bret.rows[Len(bret.rows)].total_budget = RInt(0)

\* a summary under a synthesized total whose period is neither the queried
\* period nor the period of every category item
C29_Witness ==
    /\ Returned
    /\ config.total = <<>>
    /\ Len(bret.rows) = 3
    /\ budget.budget_plan.total_budget_item.period.unit # QueriedPeriod.unit
    /\ \E i \in 1..Len(PlanItems) :
          PlanItems[i].period.unit # budget.budget_plan.total_budget_item.period.unit
    /\ bret.rows[1].total_budget # bret.rows[2].total_budget

-----------------------------------------------------------------------------
(* update_categories: src/user_modifications.py (the module the tests       *)
(* import) and src/transactions/user_modifications.py (the module the       *)
(* dashboard imports)                                                       *)
(*                                                                          *)
(*   - a search term is a record: isStr tells a str (its characters in s)   *)
(*     from a number (its value in n);                                      *)
(*   - a row has name, merchant_name, amount, category_1 and category_2;    *)
(*     merchant_name and category_2 are <<>> when null or when the table    *)
(*     has no such column, and <<value>> otherwise;                         *)
(*   - a dict is the sequence of its items in insertion order.              *)

OLD == "src.user_modifications"
TRANSACTIONS == "src.transactions.user_modifications"

\* the characters of the model's names and search terms, in the order of
\* their code points
CodePoints ==
    <<" ", "!", "-", "0", "1", "2", "3", "4", "5", "6", "7", "8", "9",
      "B", "D", "E", "F", "I", "L", "M", "O", "P", "S", "T", "U", "Y",
      "a", "b", "e", "f", "r", "s", "t", "y">>

\* ord(c), up to an increasing renumbering
ord(c) == CHOOSE i \in 1..Len(CodePoints) : CodePoints[i] = c

\* a < b on Python strs
RECURSIVE StrLt(_, _)
StrLt(a, b) ==
    IF b = <<>> THEN FALSE
    ELSE IF a = <<>> THEN TRUE
    ELSE IF a[1] = b[1] THEN StrLt(Tail(a), Tail(b))
    ELSE ord(a[1]) < ord(b[1])

\* str(x) of an int
str(x) == IF x < 0 THEN <<"-">> \o Str(-x) ELSE Str(x)

StrTerm(s) == [isStr |-> TRUE, s |-> s, n |-> 0]
NumTerm(n) == [isStr |-> FALSE, s |-> <<>>, n |-> n]

\* the sort key of a search term: the term itself in src/user_modifications.py
\* (sorted(search_terms, reverse=True)), str(x) in src/transactions
\* (key=lambda x: str(x))
SortKeyLess(module, a, b) ==
    IF module = TRANSACTIONS
    THEN StrLt(IF a.isStr THEN a.s ELSE str(a.n), IF b.isStr THEN b.s ELSE str(b.n))
    ELSE IF a.isStr THEN StrLt(a.s, b.s) ELSE a.n < b.n

\* x placed in the descending list s behind the elements that do not sort
\* below it (sorted is stable, also with reverse=True)
RECURSIVE InsertDescending(_, _, _)
InsertDescending(module, s, x) ==
    IF s = <<>> THEN <<x>>
    ELSE IF SortKeyLess(module, s[1], x) THEN <<x>> \o s
    ELSE <<s[1]>> \o InsertDescending(module, Tail(s), x)

\* sorted(search_terms, [key=...,] reverse=True) of terms that compare
RECURSIVE SortedReverse(_, _)
SortedReverse(module, search_terms) ==
    IF search_terms = <<>> THEN <<>>
    ELSE InsertDescending(module,
             SortedReverse(module, SubSeq(search_terms, 1, Len(search_terms) - 1)),
             search_terms[Len(search_terms)])

\* x.find(term) != -1
Find(x, term) ==
    \E i \in 0..(Len(x) - Len(term)) : SubSeq(x, i + 1, i + Len(term)) = term

\* one entry of _text_search_bool_key(df, term): the name, and in
\* src/transactions also a merchant_name that is not null
TextSearch(module, row, term) ==
    \/ Find(row.name, term)
    \/ /\ module = TRANSACTIONS
       /\ row.merchant_name # <<>>
       /\ Find(row.merchant_name[1], term)

\* one pass of the loop over the sorted terms, for one row of bool_key
TermStep(module, row, search_term, bool_key) ==
    IF search_term.isStr
    THEN IF search_term.s[1] = "!"
         THEN bool_key /\ ~TextSearch(module, row, Tail(search_term.s))
         ELSE bool_key \/ TextSearch(module, row, search_term.s)
    ELSE bool_key \/ row.amount = search_term.n

\* the loop over the sorted terms, for one row of bool_key
RECURSIVE BoolKey(_, _, _, _)
BoolKey(module, row, sorted_terms, bool_key) ==
    IF sorted_terms = <<>> THEN bool_key
    ELSE BoolKey(module, row, Tail(sorted_terms),
                 TermStep(module, row, sorted_terms[1], bool_key))

\* a slip: category_2 is left as it was
AssignRowMut(row, new_category, bool_key) ==
    IF bool_key THEN [row EXCEPT !.category_1 = new_category] ELSE row

\* df.loc[bool_key, 'category_1'] = new_category and
\* df.loc[bool_key, 'category_2'] = None, for one row
AssignRow(row, new_category, bool_key) ==
    IF bool_key
    THEN [row EXCEPT !.category_1 = new_category, !.category_2 = <<>>]
    ELSE row

\* the body of the loop over custom_category_map, for one rule
AssignRule(module, df, new_category, sorted_terms) ==
    [i \in DOMAIN df |->
        AssignRow(df[i], new_category, BoolKey(module, df[i], sorted_terms, FALSE))]

\* the loop over custom_category_map.items()
RECURSIVE ApplyRules(_, _, _)
ApplyRules(module, df, rules) ==
    IF rules = <<>> THEN df
    ELSE ApplyRules(module,
             AssignRule(module, df, rules[1].new_category,
                        SortedReverse(module, rules[1].search_terms)),
             Tail(rules))

\* what the loop raises on one rule: sorted() compares a str with a number
\* (src/user_modifications.py only), then search_term[0] of an empty str
RuleError(module, search_terms) ==
    IF /\ module = OLD
       /\ \E i, j \in DOMAIN search_terms :
             search_terms[i].isStr /\ ~search_terms[j].isStr
    THEN "TypeError"
    ELSE IF \E i \in DOMAIN search_terms :
               search_terms[i].isStr /\ search_terms[i].s = <<>>
    THEN "IndexError"
    ELSE ""

\* the exception of the first rule that raises, "" if none does
RECURSIVE RulesError(_, _)
RulesError(module, rules) ==
    IF rules = <<>> THEN ""
    ELSE IF RuleError(module, rules[1].search_terms) # ""
    THEN RuleError(module, rules[1].search_terms)
    ELSE RulesError(module, Tail(rules))

\* category_renaming_map.get(category, category)
Rename(category_renaming_map, category) ==
    IF \E i \in DOMAIN category_renaming_map : category_renaming_map[i][1] = category
    THEN category_renaming_map[CHOOSE i \in DOMAIN category_renaming_map :
                                   category_renaming_map[i][1] = category][2]
    ELSE category

\* df["category_1"] = df["category_1"].apply(...) of src/transactions
RenameCategories(df, category_renaming_map) ==
    [i \in DOMAIN df |->
        [df[i] EXCEPT !.category_1 = Rename(category_renaming_map, @)]]

\* a slip: no copy is taken, the caller's dataframe is the one written to
CopyMut(heap, ref) == [heap |-> heap, ref |-> ref]

\* df = df.copy(): a new dataframe object with the same rows
Copy(heap, ref) == [heap |-> Append(heap, heap[ref]), ref |-> Len(heap) + 1]

\* the statements after df = df.copy(), on the dataframe object c.ref of the
\* heap c.heap
UpdateCopy(module, c, settings) ==
    IF RulesError(module, settings.custom_category_map) # ""
    THEN [ok |-> FALSE, err |-> RulesError(module, settings.custom_category_map),
          heap |-> c.heap, df |-> 0]
    ELSE IF module = TRANSACTIONS /\ settings.category_renaming_map = <<>>
    THEN [ok |-> FALSE, err |-> "KeyError",
          heap |-> [c.heap EXCEPT ![c.ref] =
                       ApplyRules(module, @, settings.custom_category_map)],
          df |-> 0]
    ELSE [ok |-> TRUE, err |-> "",
          heap |-> [c.heap EXCEPT ![c.ref] =
                       IF module = TRANSACTIONS
                       THEN RenameCategories(
                                ApplyRules(module, @, settings.custom_category_map),
                                settings.category_renaming_map[1])
                       ELSE ApplyRules(module, @, settings.custom_category_map)],
          df |-> c.ref]

\* update_categories(df, config) of the given module, settings being
\* config['settings'] and df the object
\* ref of the heap: the heap it leaves and the object it returns
UpdateCategories(module, heap, ref, settings) ==
    UpdateCopy(module, Copy(heap, ref), settings)

(* The inputs *)

sUber == <<"U", "b", "e", "r">>
sEats == <<"E", "a", "t", "s">>
sUberEats == sUber \o <<" ">> \o sEats
sLYFT == <<"L", "Y", "F", "T">>
sLyft == <<"L", "y", "f", "t">>
sMOBILE == <<"M", "O", "B", "I", "L", "E">>
sDEPOS == <<"D", "E", "P", "O", "S">>
sMOBILEDEPOS == sMOBILE \o <<" ">> \o sDEPOS
Negated(s) == <<"!">> \o s

DfRow(name, merchant_name, amount, category_1, category_2) ==
    [name |-> name, merchant_name |-> merchant_name, amount |-> amount,
     category_1 |-> category_1, category_2 |-> category_2]

\* SIMPLE_DF of test_modifications.py: no merchant_name, no category_2
SIMPLE_DF ==
    <<DfRow(sUber, <<>>, 1000, "Nothing", <<>>),
      DfRow(sUberEats, <<>>, 100, "Nothing", <<>>),
      DfRow(sLYFT, <<>>, 100, "Nothing", <<>>),
      DfRow(sMOBILEDEPOS, <<>>, -5, "Nothing", <<>>)>>

\* a table as transform_df_by_funcs leaves it ('important_cols'), with
\* merchant_name and category_2
PIPELINE_DF ==
    <<DfRow(sEats, <<sUberEats>>, 100, "Food", <<"Restaurants">>),
      DfRow(sLYFT, <<>>, 1000, "Travel", <<"Taxi">>),
      DfRow(sMOBILEDEPOS, <<>>, -5, "Nothing", <<>>)>>

InputTable(name) == IF name = "SIMPLE_DF" THEN SIMPLE_DF ELSE PIPELINE_DF

\* longest list of search terms drawn freely from TermPool
MaxTerms == 2

TermPool ==
    {StrTerm(sUber), StrTerm(Negated(sEats)), StrTerm(Negated(sMOBILE)),
     StrTerm(<<" ">> \o sDEPOS), NumTerm(100)}

\* the lists of distinct terms of TermPool, in every order
FreeTermLists ==
    {s \in UNION {[1..n -> TermPool] : n \in 1..MaxTerms} :
        \A i, j \in DOMAIN s : i # j => s[i] # s[j]}

\* the lists of test_custom_categories, and one with an empty term
TestTermLists ==
    {<<StrTerm(sUber)>>, <<StrTerm(sLYFT)>>, <<StrTerm(sLyft)>>,
     <<StrTerm(sUber), StrTerm(sLYFT)>>,
     <<StrTerm(sUber), StrTerm(Negated(sEats))>>,
     <<StrTerm(sUber), StrTerm(Negated(sEats)), StrTerm(Negated(sMOBILE)),
       StrTerm(Negated(sLYFT))>>,
     <<StrTerm(sLYFT), StrTerm(Negated(sMOBILE))>>,
     <<StrTerm(sUber), StrTerm(<<>>)>>}

Rule(new_category, search_terms) ==
    [new_category |-> new_category, search_terms |-> search_terms]

\* custom_category_map: one rule, or two rules as in the tests
CategoryMaps ==
    {<<Rule("Uber", t)>> : t \in FreeTermLists \cup TestTermLists}
    \cup {<<Rule("Uber", t), Rule("Lyft", u)>> :
             t \in {<<StrTerm(sUber)>>, <<StrTerm(sUber), StrTerm(sLYFT)>>,
                    <<StrTerm(sUber), StrTerm(Negated(sEats)),
                      StrTerm(Negated(sMOBILE)), StrTerm(Negated(sLYFT))>>},
             u \in {<<StrTerm(sLYFT)>>, <<StrTerm(sLYFT), StrTerm(Negated(sMOBILE))>>,
                    <<NumTerm(100)>>, <<StrTerm(sUber), StrTerm(<<>>)>>}}

\* category_renaming_map: missing from the settings, empty, or renaming
RenamingMaps ==
    {<<>>, << <<>> >>, << << <<"Nothing", "Misc">>, <<"Lyft", "Rides">> >> >>}

CategoryConfigs ==
    [custom_category_map : CategoryMaps, category_renaming_map : RenamingMaps]

\* update_categories is called again and again: the count stops at MaxCalls
MaxCalls == 2

(* SpecCategories: calls of update_categories on one module-level table *)

\* df = update_categories(SIMPLE_DF, config): the result of the call before
\* is no longer referenced, nor is the copy of a call that raises
CallUpdateCategories(cfg) ==
    /\ \E r \in {UpdateCategories(frames.module, <<frames.heap[1]>>, 1, cfg)} :
          /\ frames' = [frames EXCEPT !.heap = IF r.ok THEN r.heap ELSE <<r.heap[1]>>,
                                      !.calls = Min(@ + 1, MaxCalls)]
          /\ cret' = [op |-> "update_categories", ok |-> r.ok, err |-> r.err,
                      config |-> cfg, df |-> r.df]
    /\ UNCHANGED <<now, debug, defaultRelativeTo, periodFrame, self, ret, files, tret>>

\* one of the two modules is imported, and one table is built
InitCategories ==
    /\ now = 0
    /\ debug = TRUE
    /\ defaultRelativeTo = YearStart(now)
    /\ self = None
    /\ ret = NoCall
    /\ walk = None
    /\ config = None
    /\ budget = None
    /\ bret = NoCall
    /\ frames \in {[module |-> m, input |-> t, heap |-> <<InputTable(t)>>, calls |-> 0] :
                       m \in {OLD, TRANSACTIONS}, t \in {"SIMPLE_DF", "PIPELINE_DF"}}
    /\ cret = NoCall
    /\ files = None
    /\ tret = NoCall

NextCategories ==
    \E cfg \in CategoryConfigs : CallUpdateCategories(cfg)

SpecCategories == InitCategories /\ [][NextCategories]_vars

(* Claims on update_categories *)

IsNegation(t) == t.isStr /\ t.s # <<>> /\ t.s[1] = "!"

\* the rule of the claim: a positive term is found in the name or a numeric
\* term equals the amount, and no negated term is found in the name
ClaimedAssigned(row, search_terms) ==
    /\ \E i \in DOMAIN search_terms :
          \/ /\ search_terms[i].isStr
             /\ ~IsNegation(search_terms[i])
             /\ Find(row.name, search_terms[i].s)
          \/ /\ ~search_terms[i].isStr
             /\ row.amount = search_terms[i].n
    /\ \A i \in DOMAIN search_terms :
          IsNegation(search_terms[i]) => ~Find(row.name, Tail(search_terms[i].s))

UpdateReturned == cret.op = "update_categories" /\ cret.ok

\* C21: a call with one rule gives the rule's category to exactly the rows
\* that contain a positive term (or have a listed amount) and contain no
\* negated term, whatever the terms start with and however they are ordered
\* (stated on SIMPLE_DF, whose rows have no merchant_name)
C21_NegationsApplyLast ==
    (/\ UpdateReturned
     /\ frames.input = "SIMPLE_DF"
     /\ Len(cret.config.custom_category_map) = 1)
    => \A i \in DOMAIN SIMPLE_DF :
          (frames.heap[cret.df][i].category_1
               = cret.config.custom_category_map[1].new_category)
          <=> ClaimedAssigned(SIMPLE_DF[i],
                              cret.config.custom_category_map[1].search_terms)

\* what a call that returns leaves in the dataframe it returns
ReturnedFrame(r) == r.heap[r.df]

\* what a first call on the original table returns
FreshResult(module, table, cfg) ==
    ReturnedFrame(UpdateCategories(module, <<table>>, 1, cfg))

\* C22: after any number of calls the table passed in holds its original
\* rows, and the result of each call that returns is the one a first call
\* with that config gives
C22_InputIsLeftUnchanged ==
    frames # None =>
       /\ frames.heap[1] = InputTable(frames.input)
       /\ UpdateReturned =>
             frames.heap[cret.df]
                 = FreshResult(frames.module, InputTable(frames.input), cret.config)

\* a second or later call has returned rows that differ from the input's
C22_Witness ==
    /\ UpdateReturned
    /\ frames.calls = MaxCalls
    /\ frames.heap[cret.df] # frames.heap[1]
    /\ frames.heap[1] = InputTable(frames.input)

\* the rules of the map whose terms take the row
MatchingRules(module, row, rules) ==
    {k \in DOMAIN rules :
        BoolKey(module, row, SortedReverse(module, rules[k].search_terms), FALSE)}

Max(S) == CHOOSE x \in S : \A y \in S : y <= x

\* the row after the last of the rules M, or as it was if M is empty
LastRuleWins(row, rules, M) ==
    IF M = {} THEN row
    ELSE [row EXCEPT !.category_1 = rules[Max(M)].new_category,
                     !.category_2 = <<>>]

\* a row reduced to what a match may depend on
NameAndAmount(row) == DfRow(row.name, <<>>, row.amount, "", <<>>)
NameMerchantAndAmount(row) == DfRow(row.name, row.merchant_name, row.amount, "", <<>>)

\* the category as the call returns it: renamed in src/transactions
Returns(category) ==
    IF frames.module = TRANSACTIONS
    THEN Rename(cret.config.category_renaming_map[1], category)
    ELSE category

-----------------------------------------------------------------------------
(* maybe_pull_latest_transactions: src/transactions/selection.py            *)
(*                                                                          *)
(*   - a transactions table is the sequence of its rows, a row a record of  *)
(*     its ISO date string and its name; all_transactions.csv holds the     *)
(*     rows to_csv wrote (<<>> when there is no file, <<table>> otherwise); *)
(*   - latest_pull_info.json is <<>> when there is no file, <<info>> with   *)
(*     the dumped dict otherwise; info is Truncated when open(..., "w") was *)
(*     not followed by a dump;                                              *)
(*   - a dataframe or None handed to the caller is <<table>> or <<>>;       *)
(*   - the directory of the two files exists.                               *)

TX_PLAID == "plaid"
TX_NONE == "none"

TRANSACTION_GRACE_BUFFER == 10
TRANSACTIONS_PULL_BUFFER == 1

Tx(day, name) == [date |-> strftime(day), name |-> name]

\* the transactions the bank reports for the linked account
Ledger == <<Tx(12, "groceries"), Tx(20, "fuel"), Tx(28, "books")>>

\* a cache kept from earlier runs, its rows not among those the bank reports
OldCache == <<Tx(2, "rent"), Tx(10, "cafe"), Tx(17, "cinema")>>

\* df[keep(df.date)]: the rows whose index is in the set keep
RECURSIVE Select(_, _)
Select(df, keep) ==
    IF df = <<>> THEN <<>>
    ELSE (IF 1 \in keep THEN <<df[1]>> ELSE <<>>)
         \o Select(Tail(df), {k - 1 : k \in keep \ {1}})

\* existing_df['date'].max() of a table with rows
MaxDate(df) ==
    df[CHOOSE i \in DOMAIN df : \A j \in DOMAIN df : ~StrLess(df[i].date, df[j].date)].date

\* existing_df[existing_df['date'] < start_date]
BeforeStart(existing_df, start_date) ==
    Select(existing_df, {i \in DOMAIN existing_df : StrLess(existing_df[i].date, start_date)})

\* what the provider holds between start_date and end_date
Between(start_date, end_date) ==
    Select(Ledger, {i \in DOMAIN Ledger :
                       /\ ~StrLess(Ledger[i].date, start_date)
                       /\ ~StrLess(end_date, Ledger[i].date)})

Truncated == [latest_pull |-> -1, latest_transaction_date |-> <<>>,
              method |-> "", success |-> FALSE]

\* METHOD_MAP[method](start_date, end_date), wrapped: the frame it returns
\* and the pull-info file it leaves. The lambda of TX_NONE returns
\* empty_transaction_df, whose date column has the maximum nan; plaid returns
\* the transactions of the range, a frame without columns if there are none,
\* on which df["date"] raises KeyError after the file was opened for writing.
GetTransactionsDf(method, start_date, end_date, clock, api_up, pull_info) ==
    IF method = TX_NONE
    THEN [ok |-> TRUE, err |-> "", df |-> <<>>,
          pull_info |-> <<[latest_pull |-> clock, latest_transaction_date |-> <<>>,
                           method |-> method, success |-> TRUE]>>]
    ELSE IF ~api_up
    THEN [ok |-> FALSE, err |-> "ApiException", df |-> <<>>, pull_info |-> pull_info]
    ELSE IF Between(start_date, end_date) = <<>>
    THEN [ok |-> FALSE, err |-> "KeyError", df |-> <<>>, pull_info |-> <<Truncated>>]
    ELSE [ok |-> TRUE, err |-> "", df |-> Between(start_date, end_date),
          pull_info |-> <<[latest_pull |-> clock,
                           latest_transaction_date |-> <<MaxDate(Between(start_date, end_date))>>,
                           method |-> method, success |-> TRUE]>>]

\* lines 108-110 and 124: the date the pull starts from
StartDate(existing_df) ==
    IF existing_df = <<>> THEN <<2016, 1, 1>>
    ELSE strftime(strptime(MaxDate(existing_df[1])) - TRANSACTION_GRACE_BUFFER)

\* lines 114-127: all_transactions_df
AllTransactions(existing_df, start_date, latest_transactions_df) ==
    IF existing_df = <<>> THEN latest_transactions_df
    ELSE BeforeStart(existing_df[1], start_date) \o latest_transactions_df

\* lines 129-138, after a pull that returned: g is what the wrapped method
\* gave, all the concatenated table
AfterPull(fs, existing_df, g, all) ==
    IF Len(all) = 0
    THEN [ok |-> FALSE, err |-> "ValueError", df |-> <<>>, pulled |-> TRUE,
          existing_df |-> existing_df, latest_transactions_df |-> <<g.df>>,
          files |-> [fs EXCEPT !.pull_info = g.pull_info]]
    ELSE [ok |-> TRUE, err |-> "", df |-> <<all>>, pulled |-> TRUE,
          existing_df |-> existing_df, latest_transactions_df |-> <<g.df>>,
          files |-> [cache |-> <<all>>, pull_info |-> g.pull_info]]

\* lines 108-138: g is what the wrapped method gave
Pull(fs, existing_df, start_date, g) ==
    IF ~g.ok
    THEN [ok |-> FALSE, err |-> g.err, df |-> <<>>, pulled |-> TRUE,
          existing_df |-> existing_df, latest_transactions_df |-> <<>>,
          files |-> [fs EXCEPT !.pull_info = g.pull_info]]
    ELSE AfterPull(fs, existing_df, g, AllTransactions(existing_df, start_date, g.df))

\* line 101: (datetime.now() - TRANSACTIONS_PULL_BUFFER) <= latest_pull. The
\* clock counts days: a pull made the day before is recent or not, as the
\* times of day fall (recent_if_tie)
PullIsRecent(clock, latest_pull, recent_if_tie) ==
    \/ clock - TRANSACTIONS_PULL_BUFFER < latest_pull
    \/ clock - TRANSACTIONS_PULL_BUFFER = latest_pull /\ recent_if_tie

\* maybe_pull_latest_transactions() with the files fs on day clock
MaybePullLatestTransactions(fs, clock, method, api_up, recent_if_tie) ==
    IF fs.pull_info # <<>> /\ fs.pull_info[1] = Truncated
    THEN [ok |-> FALSE, err |-> "JSONDecodeError", df |-> <<>>, pulled |-> FALSE,
          existing_df |-> fs.cache, latest_transactions_df |-> <<>>, files |-> fs]
    ELSE IF /\ fs.pull_info # <<>>
            /\ PullIsRecent(clock, fs.pull_info[1].latest_pull, recent_if_tie)
    THEN [ok |-> TRUE, err |-> "", df |-> fs.cache, pulled |-> FALSE,
          existing_df |-> fs.cache, latest_transactions_df |-> <<>>, files |-> fs]
    ELSE Pull(fs, fs.cache, StartDate(fs.cache),
              GetTransactionsDf(method, StartDate(fs.cache), NowStr(clock), clock,
                                api_up, fs.pull_info))

(* SpecPull: the dashboard is opened again and again as the days pass *)

\* the first day of the run
PullStart == 18

CallMaybePull(method, api_up, recent_if_tie) ==
    /\ \E r \in {MaybePullLatestTransactions(files, now, method, api_up, recent_if_tie)} :
          /\ files' = r.files
          /\ tret' = [op |-> "maybe_pull_latest_transactions", ok |-> r.ok,
                      err |-> r.err, df |-> r.df, pulled |-> r.pulled,
                      existing_df |-> r.existing_df,
                      latest_transactions_df |-> r.latest_transactions_df]
    /\ UNCHANGED <<now, debug, defaultRelativeTo, periodFrame, self, ret, frames, cret>>

\* midnight passes
PullTick ==
    /\ now < MaxDay
    /\ now' = now + 1
    /\ UNCHANGED <<debug, defaultRelativeTo, periodFrame, self, ret, ioFrame>>

InitPull ==
    /\ now = PullStart
    /\ debug = TRUE
    /\ defaultRelativeTo = YearStart(now)
    /\ self = None
    /\ ret = NoCall
    /\ walk = None
    /\ config = None
    /\ budget = None
    /\ bret = NoCall
    /\ frames = None
    /\ cret = NoCall
    /\ files \in {[cache |-> c, pull_info |-> <<>>] : c \in {<<>>, <<OldCache>>}}
    /\ tret = NoCall

NextPull ==
    \/ PullTick
    \/ \E method \in {TX_PLAID, TX_NONE} : \E api_up, recent_if_tie \in BOOLEAN :
          CallMaybePull(method, api_up, recent_if_tie)

SpecPull == InitPull /\ [][NextPull]_vars

(* Claims on maybe_pull_latest_transactions *)

RowsOf(df) == {df[i] : i \in DOMAIN df}

Pulled == tret.op = "maybe_pull_latest_transactions" /\ tret.pulled

\* C26: a pull that finds a cache and gets no transactions from the provider
\* returns, and the table returned and the cache written hold every row the
\* cache held before the call
C26_EmptyPullKeepsTheCache ==
    (/\ Pulled
     /\ tret.existing_df # <<>>
     /\ tret.latest_transactions_df = << <<>> >>)
    => /\ tret.ok
       /\ RowsOf(tret.existing_df[1]) \subseteq RowsOf(tret.df[1])
       /\ files.cache # <<>>
       /\ RowsOf(tret.existing_df[1]) \subseteq RowsOf(files.cache[1])

\* C27: a call that returns hands back a table with rows, never None, and
\* the pull-info file records a successful pull only beside a cache with rows
C27_ReturnsRowsAndRecordsUsablePulls ==
    /\ (tret.op = "maybe_pull_latest_transactions" /\ tret.ok)
          => (tret.df # <<>> /\ Len(tret.df[1]) > 0)
    /\ (files # None /\ files.pull_info # <<>> /\ files.pull_info[1].success)
          => (files.cache # <<>> /\ Len(files.cache[1]) > 0)

====
